---- MODULE Spec2Model ----
\* The p2p coordinator of daisy (src/p2pcoordinator.go): the run loop, its
\* handlers for control messages and timer ticks, peer discovery, saved-peer
\* reconciliation and the block-hash flood, together with the goroutines and
\* services around it (tick source, connection workers, database, clock).
\*
\* Addresses are strings, modelled as sequences of one-character strings.
\* Time is counted in minutes. A block hash is represented by its height.
EXTENDS Integers, Sequences, FiniteSets, TLC

\* ---------------------------------------------------------------- bounds
MaxLen == 3         \* longest address the canonicalization check enumerates
MaxBatch == 2       \* longest DiscoverPeers batch
MaxHeight == 3      \* the chain does not grow past this height
MaxTime == 20       \* the clock stops here (minutes)
TimeStep == 5       \* granularity of the observed clock (minutes)
MaxMsgs == 2        \* control messages ever delivered
MaxCtrl == 2        \* control messages pending at once
MaxConns == 2       \* connections ever established
MaxBad == 1         \* addresses ever quarantined

\* ------------------------------------------------------ program constants
DefaultP2PPort == 7         \* the network's fixed port (line 80)
ReconnectMinutes == 10      \* 10*time.Minute (line 114)
BadPeersMinutes == 15       \* 15*time.Minute (line 27)
ChanToPeerCap == 5          \* make(chan interface{}, 5) (lines 96, 154)

Chars == {"a", ":", "7", "9"}
Colon == ":"

\* ------------------------------------------------------------- variables
VARIABLES
  \* the coordinator (p2pCoordinatorType) and its run loop
  coPc,                     \* where the Run goroutine is
  lastTickBlockchainHeight,
  lastReconnectTime,
  badPeers,                 \* address -> minute of insertion, -1 when never inserted
  \* channels
  p2pCtrlChannel,           \* control messages delivered and not yet received
  tickPc,                   \* where the timeTickSource goroutine is
  \* locals of the handler in progress
  addresses,                \* handleDiscoverPeers: candidates still to visit
  p2pcStart,                \* handleSearchForBlocks: the connection, 0 when none
  newHeight,                \* handleTimeTick: the height read
  flooded,                  \* handleTimeTick: whether this tick found growth and flooded
  msg,                      \* the message being sent by a handler
  floodOrder,               \* floodPeersWithNewBlocks: connections still to send to
  peers,                    \* connectDbPeers: saved addresses still to visit
  peer,                     \* connectDbPeers: the saved address being dialed
  address,                  \* handleDiscoverPeers: the candidate
  canonicalAddress,         \* handleDiscoverPeers: its canonical form
  \* the peer registry and the connections
  p2pPeers,                 \* set of registered connections (ids)
  connAddress,              \* connection -> address
  chainHeight,              \* connection -> height the peer advertised
  sentToPeer,               \* connection -> every message sent on chanToPeer
  takenByWorker,            \* connection -> how many of them its worker received
  workerStarted,            \* connection -> how many times its handleConnection was started
  nextConn,
  \* the database and the clock
  dbHeight,
  dbSavedPeers,
  now,
  \* records of what happened
  startHeight,              \* the height Run read
  floods,                   \* every flood: its range and the registry it iterated
  posted,                   \* control messages delivered so far
  curMsg,                   \* id of the control message being handled, 0 when none
  doneMsgs                  \* control handlers that have returned

vars == <<coPc, lastTickBlockchainHeight, lastReconnectTime, badPeers,
          p2pCtrlChannel, tickPc, addresses, p2pcStart, newHeight, flooded, msg,
          floodOrder, peers, p2pPeers, connAddress, chainHeight, sentToPeer,
          takenByWorker, workerStarted, nextConn, dbHeight, dbSavedPeers, now,
          startHeight, floods, posted, curMsg, doneMsgs,
          peer, address, canonicalAddress>>

coVars == <<coPc, lastTickBlockchainHeight, lastReconnectTime>>
localVars == <<addresses, p2pcStart, newHeight, flooded, msg, floodOrder, peers, peer,
               address, canonicalAddress>>
connVars == <<p2pPeers, connAddress, workerStarted, nextConn>>
queueVars == <<sentToPeer, takenByWorker>>
logVars == <<startHeight, floods>>
orderVars == <<curMsg, doneMsgs>>

\* ----------------------------------------------------------------- strings
Str(n) == UNION {[1..k -> Chars] : k \in 0..n}

\* strings.LastIndex(s, ":"), 1-based; 0 when there is no colon (Go: -1)
LastIndex(s) ==
  IF \E i \in 1..Len(s) : s[i] = Colon
  THEN CHOOSE i \in 1..Len(s) : s[i] = Colon /\ \A j \in (i+1)..Len(s) : s[j] # Colon
  ELSE 0

Digit(d) == CASE d = 0 -> "0" [] d = 1 -> "1" [] d = 2 -> "2" [] d = 3 -> "3"
              [] d = 4 -> "4" [] d = 5 -> "5" [] d = 6 -> "6" [] d = 7 -> "7"
              [] d = 8 -> "8" [] d = 9 -> "9"

\* the %d of fmt.Sprintf
RECURSIVE Itoa(_)
Itoa(n) == IF n < 10 THEN <<Digit(n)>> ELSE Itoa(n \div 10) \o <<Digit(n % 10)>>

\* the host part: everything before the last colon
HostNoStrip(a) == a
Host(a) == IF LastIndex(a) > 0 THEN SubSeq(a, 1, LastIndex(a) - 1) ELSE a

\* canonicalAddress := fmt.Sprintf("%s:%d", host, DefaultP2PPort)
Canon(a) == Host(a) \o <<Colon>> \o Itoa(DefaultP2PPort)

\* ------------------------------------------------------------ the inputs
\* candidate addresses that peers gossip: a host with and without a port
Candidates == { <<"a">>, <<"a", ":", "9">>, <<"9", ":", "7">> }
Addrs == {Canon(c) : c \in Candidates}
Batches == UNION {[1..k -> Candidates] : k \in 1..MaxBatch}
Conns == 1..MaxConns

NoMsg == [Msg |-> "none"]

\* -------------------------------------------------- external collaborators
\* p2pPeers.HasAddress
HasAddress(a) == \E c \in p2pPeers : connAddress[c] = a

\* StringSetWithExpiry.Has for badPeers: inserted, and the TTL has not elapsed
Has(set, key) ==
  /\ key \in DOMAIN set
  /\ set[key] >= 0
  /\ now - set[key] < BadPeersMinutes

\* dbGetHeightHashes(min, max): the hashes of the heights in (min, max]
dbGetHeightHashes(min, max) == [i \in 1..(max - min) |-> min + i]

\* what is buffered in the connection's chanToPeer
chanToPeer(c) == SubSeq(sentToPeer[c], takenByWorker[c] + 1, Len(sentToPeer[c]))

\* p2pc.chanToPeer <- m can proceed
CanSend(c) == Len(chanToPeer(c)) < ChanToPeerCap

\* p2pc.chanToPeer <- m
Send(c, m) == sentToPeer' = [sentToPeer EXCEPT ![c] = Append(@, m)]

\* ------------------------------------------------------------------ Init
InitProgram ==
  /\ coPc = "start"
  /\ lastTickBlockchainHeight = 0
  /\ lastReconnectTime = 0
  /\ badPeers = [a \in Addrs |-> -1]
  /\ p2pCtrlChannel = <<>>
  /\ tickPc = "none"
  /\ addresses = <<>>
  /\ p2pcStart = 0
  /\ newHeight = 0
  /\ flooded = FALSE
  /\ msg = NoMsg
  /\ floodOrder = <<>>
  /\ peers = {}
  /\ peer = <<>>
  /\ canonicalAddress = <<>>
  /\ p2pPeers = {}
  /\ connAddress = [c \in Conns |-> <<>>]
  /\ chainHeight = [c \in Conns |-> 0]
  /\ sentToPeer = [c \in Conns |-> <<>>]
  /\ takenByWorker = [c \in Conns |-> 0]
  /\ workerStarted = [c \in Conns |-> 0]
  /\ nextConn = 1
  /\ dbHeight = 1
  /\ now = 0
  /\ startHeight = 0
  /\ floods = <<>>
  /\ posted = 0
  /\ curMsg = 0
  /\ doneMsgs = 0

\* the saved peers of an earlier run: none, or one
Init == InitProgram /\ address = <<>> /\ dbSavedPeers \in {{}, {Canon(<<"a">>)}}

\* ------------------------------------------------------------------- Run
\* Run, up to the loop: read the height, start the tick source
RunStart ==
  /\ coPc = "start"
  /\ lastTickBlockchainHeight' = dbHeight
  /\ startHeight' = dbHeight
  /\ tickPc' = "sleep"
  /\ coPc' = "select"
  /\ UNCHANGED <<lastReconnectTime, badPeers, p2pCtrlChannel, localVars, connVars,
                 chainHeight, queueVars, dbHeight, dbSavedPeers, now, floods,
                 posted, orderVars>>

\* msg := <-p2pCtrlChannel takes the message delivered first
NextCtrlMsgNewest(ch) == Len(ch)
NextCtrlMsg(ch) == 1

\* the handler of a control message returns to the select
ReturnFromCtrl ==
  /\ coPc' = "select"
  /\ curMsg' = 0
  /\ doneMsgs' = doneMsgs + 1

\* msg of handleSearchForBlocks(p)
SearchMsgFromLastTick(p) ==
  [Msg |-> "p2pMsgGetBlockHashes",
   MinBlockHeight |-> lastTickBlockchainHeight,
   MaxBlockHeight |-> chainHeight[p]]
SearchMsg(p) ==
  [Msg |-> "p2pMsgGetBlockHashes",
   MinBlockHeight |-> dbHeight,
   MaxBlockHeight |-> chainHeight[p]]

\* case msg := <-p2pCtrlChannel, and the start of its handler. The addresses
\* of a DiscoverPeers message are drawn here, where they are first read.
RecvCtrl ==
  /\ coPc = "select"
  /\ p2pCtrlChannel # <<>>
  /\ LET k == NextCtrlMsg(p2pCtrlChannel)
         m == p2pCtrlChannel[k]
     IN
       /\ p2pCtrlChannel' = [i \in 1..(Len(p2pCtrlChannel) - 1) |->
                               IF i < k THEN p2pCtrlChannel[i] ELSE p2pCtrlChannel[i + 1]]
       /\ curMsg' = m.id
       /\ doneMsgs' = doneMsgs
       /\ \/ /\ m.msgType = "p2pCtrlSearchForBlocks"
             /\ coPc' = "search"
             /\ p2pcStart' = m.payload
             /\ msg' = SearchMsg(m.payload)
             /\ UNCHANGED addresses
          \/ /\ m.msgType = "p2pCtrlDiscoverPeers"
             /\ coPc' = "discover"
             /\ addresses' \in Batches
             /\ UNCHANGED <<p2pcStart, msg>>
  /\ UNCHANGED <<lastTickBlockchainHeight, lastReconnectTime, badPeers, tickPc,
                 newHeight, flooded, floodOrder, peers, peer, address, canonicalAddress,
                 connVars, chainHeight, queueVars, dbHeight, dbSavedPeers, now,
                 logVars, posted>>

\* ------------------------------------------------- handleSearchForBlocks
\* p2pcStart.chanToPeer <- msg
SearchSend ==
  /\ coPc = "search"
  /\ CanSend(p2pcStart)
  /\ Send(p2pcStart, msg)
  /\ p2pcStart' = 0
  /\ msg' = NoMsg
  /\ ReturnFromCtrl
  /\ UNCHANGED <<lastTickBlockchainHeight, lastReconnectTime, badPeers,
                 p2pCtrlChannel, tickPc, addresses, newHeight, flooded, floodOrder, peers,
                 peer, address, canonicalAddress, connVars, chainHeight,
                 takenByWorker, dbHeight, dbSavedPeers, now, logVars, posted>>

\* --------------------------------------------------- handleDiscoverPeers
\* the filter of both dialing paths: not connected, not quarantined
EligibleIgnoringRegistry(a) == ~Has(badPeers, a)
EligibleIgnoringBadPeers(a) == ~HasAddress(a)
Eligible(a) == ~HasAddress(a) /\ ~Has(badPeers, a)

\* p2pc := p2pConnection{...}; p2pPeers.Add(&p2pc). The registry's lock is
\* released when Add returns, before the worker is started.
Register(a) ==
  /\ p2pPeers' = p2pPeers \cup {nextConn}
  /\ connAddress' = [connAddress EXCEPT ![nextConn] = a]
  /\ nextConn' = nextConn + 1
  /\ UNCHANGED workerStarted

\* the handler's local p2pc once the connection is made
p2pc == nextConn - 1

\* go p2pc.handleConnection()
WorkersWithoutGo(c) == workerStarted
WorkersAfterGo(c) == [workerStarted EXCEPT ![c] = @ + 1]

\* badPeers after a resolve or dial of address a failed: the handlers leave it
\* as it is
BadPeersWithFailed(a) == [badPeers EXCEPT ![a] = now]
BadPeersAfterFailure(a) == badPeers

\* what is left of the batch after a failed resolve or dial: return
AfterError(rest) == <<>>

\* the loop goes on with what is left, and the handler returns when nothing is
DiscoverGoOn(rest) ==
  /\ addresses' = rest
  /\ address' = <<>>
  /\ canonicalAddress' = <<>>
  /\ IF rest = <<>> THEN ReturnFromCtrl
                    ELSE coPc' = "discover" /\ UNCHANGED orderVars

\* one iteration of the loop over the batch, up to the dial
DiscoverStep ==
  /\ coPc = "discover"
  /\ addresses # <<>>
  /\ LET canonical == Canon(Head(addresses))
         rest == Tail(addresses)
     IN
       \/ /\ ~Eligible(canonical)
          /\ DiscoverGoOn(rest)
          /\ UNCHANGED badPeers
       \/ /\ Eligible(canonical)
          /\ badPeers' = BadPeersAfterFailure(canonical)
          /\ DiscoverGoOn(AfterError(rest))
       \/ /\ Eligible(canonical)
          /\ coPc' = "discoverDial"
          /\ address' = Head(addresses)
          /\ canonicalAddress' = canonical
          /\ addresses' = rest
          /\ UNCHANGED <<badPeers, orderVars>>
  /\ UNCHANGED <<lastTickBlockchainHeight, lastReconnectTime,
                 p2pCtrlChannel, tickPc, p2pcStart, newHeight, flooded, msg, floodOrder,
                 peers, peer, connVars, chainHeight, queueVars, dbHeight,
                 dbSavedPeers, now, logVars, posted>>

\* net.DialTCP returns; on success the connection is made and added to the
\* registry
DiscoverDial ==
  /\ coPc = "discoverDial"
  /\ \/ /\ badPeers' = BadPeersAfterFailure(canonicalAddress)
        /\ DiscoverGoOn(AfterError(addresses))
        /\ UNCHANGED connVars
     \/ /\ nextConn <= MaxConns
        /\ Register(canonicalAddress)
        /\ coPc' = "discoverSpawn"
        /\ UNCHANGED <<badPeers, addresses, address, canonicalAddress, orderVars>>
  /\ UNCHANGED <<lastTickBlockchainHeight, lastReconnectTime,
                 p2pCtrlChannel, tickPc, p2pcStart, newHeight, flooded, msg, floodOrder,
                 peers, peer, chainHeight, queueVars, dbHeight, dbSavedPeers, now,
                 logVars, posted>>

\* dbSavePeer(canonicalAddress)
PeerToSaveAsGiven == address
PeerToSave == canonicalAddress

\* the worker is started and the address saved; the loop goes on
DiscoverSpawn ==
  /\ coPc = "discoverSpawn"
  /\ workerStarted' = WorkersAfterGo(p2pc)
  /\ dbSavedPeers' = dbSavedPeers \cup {PeerToSave}
  /\ DiscoverGoOn(addresses)
  /\ UNCHANGED <<lastTickBlockchainHeight, lastReconnectTime, badPeers,
                 p2pCtrlChannel, tickPc, p2pcStart, newHeight, flooded, msg, floodOrder,
                 peers, peer, p2pPeers, connAddress, nextConn, chainHeight,
                 queueVars, dbHeight, now, logVars, posted>>

\* -------------------------------------------------------- handleTimeTick
\* if newHeight > co.lastTickBlockchainHeight
HeightGrewOrChanged(h) == h # lastTickBlockchainHeight
HeightGrewByMoreThanOne(h) == h > lastTickBlockchainHeight + 1
HeightGrewOrSame(h) == h >= lastTickBlockchainHeight
HeightGrew(h) == h > lastTickBlockchainHeight

\* where handleTimeTick goes on after the if of line 110: the if of line 114
AfterHeightCheckReturn == "select"
AfterHeightCheck == "reconnectCheck"

\* msg of floodPeersWithNewBlocks(minHeight, maxHeight)
FloodMsg(minHeight, maxHeight) ==
  [Msg |-> "p2pMsgBlockHashes", Hashes |-> dbGetHeightHashes(minHeight, maxHeight)]

\* for p2pc := range p2pPeers.peers: the orders in which the range can visit
\* the map's keys
RangeStopsEarly(S) ==
  {s \in [1..(Cardinality(S) - 1) -> S] : \A i, j \in DOMAIN s : s[i] = s[j] => i = j}
RangeOverPeers(S) ==
  {s \in [1..Cardinality(S) -> S] : \A i, j \in DOMAIN s : s[i] = s[j] => i = j}

\* if time.Since(co.lastReconnectTime) >= 10*time.Minute
ReconnectDueLate ==  now - lastReconnectTime > ReconnectMinutes
ReconnectDueAtOnce == now - lastReconnectTime >= 0
ReconnectDue == now - lastReconnectTime >= ReconnectMinutes

\* the send of timeTickSource and the receive of the run loop meet on the
\* unbuffered channel timeTicks
TickTakenAnyTime == tickPc = "send" /\ coPc # "start"
TickTaken == tickPc = "send" /\ coPc = "select"

\* case <-co.timeTicks: handleTimeTick reads the height and, if it grew,
\* floodPeersWithNewBlocks builds its message and starts to range over the registry
RecvTick ==
  /\ TickTaken
  /\ tickPc' = "sleep"
  /\ newHeight' = dbHeight
  /\ flooded' = HeightGrew(dbHeight)
  /\ \/ /\ HeightGrew(dbHeight)
        /\ coPc' = "flood"
        /\ msg' = FloodMsg(lastTickBlockchainHeight, dbHeight)
        /\ floodOrder' \in RangeOverPeers(p2pPeers)
        /\ floods' = Append(floods, [min |-> lastTickBlockchainHeight,
                                     max |-> dbHeight, to |-> p2pPeers,
                                     hashes |-> msg'.Hashes])
     \/ /\ ~HeightGrew(dbHeight)
        /\ coPc' = AfterHeightCheck
        /\ UNCHANGED <<msg, floodOrder, floods>>
  /\ UNCHANGED <<lastTickBlockchainHeight, lastReconnectTime, badPeers,
                 p2pCtrlChannel, addresses, p2pcStart, peers, peer, address,
                 canonicalAddress, connVars, chainHeight, queueVars, dbHeight,
                 dbSavedPeers, now, startHeight, posted, orderVars>>

\* p2pc.chanToPeer <- msg, for the next connection of the range
FloodSend ==
  /\ coPc = "flood"
  /\ floodOrder # <<>>
  /\ CanSend(Head(floodOrder))
  /\ Send(Head(floodOrder), msg)
  /\ floodOrder' = Tail(floodOrder)
  /\ UNCHANGED <<coVars, badPeers, p2pCtrlChannel, tickPc, addresses, p2pcStart,
                 newHeight, flooded, msg, peers, peer, address, canonicalAddress, connVars,
                 chainHeight, takenByWorker, dbHeight, dbSavedPeers, now, logVars,
                 posted, orderVars>>

\* co.lastTickBlockchainHeight = newHeight
HeightKept(h) == lastTickBlockchainHeight
HeightAfterFlood(h) == h

\* the range is over, the lock released, and the height advanced
FloodDone ==
  /\ coPc = "flood"
  /\ floodOrder = <<>>
  /\ lastTickBlockchainHeight' = HeightAfterFlood(newHeight)
  /\ msg' = NoMsg
  /\ coPc' = AfterHeightCheck
  /\ UNCHANGED <<lastReconnectTime, badPeers, p2pCtrlChannel, tickPc, addresses,
                 p2pcStart, newHeight, flooded, floodOrder, peers, peer, address,
                 canonicalAddress, connVars, chainHeight, queueVars, dbHeight,
                 dbSavedPeers, now, logVars, posted, orderVars>>

\* the second half of handleTimeTick
ReconnectCheck ==
  /\ coPc = "reconnectCheck"
  /\ newHeight' = 0
  /\ \/ /\ ReconnectDue
        /\ lastReconnectTime' = now
        /\ peers' = dbSavedPeers
        /\ coPc' = "connectDbPeers"
        /\ UNCHANGED flooded
     \/ /\ ~ReconnectDue
        /\ coPc' = "select"
        /\ flooded' = FALSE
        /\ UNCHANGED <<lastReconnectTime, peers>>
  /\ UNCHANGED <<lastTickBlockchainHeight, badPeers, p2pCtrlChannel, tickPc,
                 addresses, p2pcStart, msg, floodOrder, peer, address,
                 canonicalAddress, connVars, chainHeight, queueVars, dbHeight,
                 dbSavedPeers, now, logVars, posted, orderVars>>

\* --------------------------------------------------------- connectDbPeers
\* one iteration of the loop over the saved peers, up to the dial
ConnectStep ==
  /\ coPc = "connectDbPeers"
  /\ \E p \in peers :
       /\ peers' = peers \ {p}
       /\ \/ /\ ~Eligible(p)
             /\ UNCHANGED <<coPc, peer>>
          \/ /\ Eligible(p)
             /\ coPc' = "connectDial"
             /\ peer' = p
  /\ UNCHANGED <<lastTickBlockchainHeight, lastReconnectTime, badPeers,
                 p2pCtrlChannel, tickPc, addresses, p2pcStart, newHeight, flooded, msg,
                 floodOrder, address, canonicalAddress, connVars, chainHeight,
                 queueVars, dbHeight, dbSavedPeers, now, logVars, posted, orderVars>>

\* net.Dial returns; on success the connection is made and added to the
\* registry
ConnectDial ==
  /\ coPc = "connectDial"
  /\ peer' = <<>>
  /\ \/ /\ coPc' = "connectDbPeers"
        /\ badPeers' = BadPeersAfterFailure(peer)
        /\ UNCHANGED connVars
     \/ /\ nextConn <= MaxConns
        /\ Register(peer)
        /\ coPc' = "connectSpawn"
        /\ UNCHANGED badPeers
  /\ UNCHANGED <<lastTickBlockchainHeight, lastReconnectTime,
                 p2pCtrlChannel, tickPc, addresses, p2pcStart, newHeight, flooded, msg,
                 floodOrder, peers, address, canonicalAddress, chainHeight,
                 queueVars, dbHeight, dbSavedPeers, now, logVars, posted, orderVars>>

\* the worker is started; the loop goes on
ConnectSpawn ==
  /\ coPc = "connectSpawn"
  /\ workerStarted' = WorkersAfterGo(p2pc)
  /\ coPc' = "connectDbPeers"
  /\ UNCHANGED <<lastTickBlockchainHeight, lastReconnectTime, badPeers,
                 p2pCtrlChannel, tickPc, localVars, p2pPeers, connAddress,
                 nextConn, chainHeight, queueVars, dbHeight, dbSavedPeers, now,
                 logVars, posted, orderVars>>

\* the loop is over, and handleTimeTick returns
ConnectDone ==
  /\ coPc = "connectDbPeers"
  /\ peers = {}
  /\ coPc' = "select"
  /\ flooded' = FALSE
  /\ UNCHANGED <<lastTickBlockchainHeight, lastReconnectTime, badPeers,
                 p2pCtrlChannel, tickPc, addresses, p2pcStart, newHeight, msg,
                 floodOrder, peers, peer, address, canonicalAddress, connVars, chainHeight,
                 queueVars, dbHeight, dbSavedPeers, now, logVars, posted, orderVars>>

\* -------------------------------------------------------- timeTickSource
\* time.Sleep(1 * time.Second) is over; the goroutine is at co.timeTicks <- 1
TickSleepDone ==
  /\ tickPc = "sleep"
  /\ tickPc' = "send"
  /\ UNCHANGED <<coVars, badPeers, p2pCtrlChannel, localVars, connVars, chainHeight,
                 queueVars, dbHeight, dbSavedPeers, now, logVars, posted, orderVars>>

\* ------------------------------------------------------- the environment
TimePasses ==
  /\ now + TimeStep <= MaxTime
  /\ now' = now + TimeStep
  /\ UNCHANGED <<coVars, badPeers, p2pCtrlChannel, tickPc, localVars, connVars,
                 chainHeight, queueVars, dbHeight, dbSavedPeers, logVars, posted,
                 orderVars>>

\* a block is accepted into the chain
BlockAccepted ==
  /\ dbHeight < MaxHeight
  /\ dbHeight' = dbHeight + 1
  /\ UNCHANGED <<coVars, badPeers, p2pCtrlChannel, tickPc, localVars, connVars,
                 chainHeight, queueVars, dbSavedPeers, now, logVars, posted,
                 orderVars>>

\* the database reports a lower height than before
HeightDrops ==
  /\ dbHeight > 0
  /\ dbHeight' = dbHeight - 1
  /\ UNCHANGED <<coVars, badPeers, p2pCtrlChannel, tickPc, localVars, connVars,
                 chainHeight, queueVars, dbSavedPeers, now, logVars, posted,
                 orderVars>>

\* p2pCtrlChannel <- a message
Deliver(type, payload) ==
  /\ posted < MaxMsgs
  /\ Len(p2pCtrlChannel) < MaxCtrl
  /\ posted' = posted + 1
  /\ p2pCtrlChannel' = Append(p2pCtrlChannel,
                              [id |-> posted + 1, msgType |-> type, payload |-> payload])

\* a peer gossips addresses
PostDiscoverPeers ==
  /\ Deliver("p2pCtrlDiscoverPeers", 0)
  /\ UNCHANGED <<coVars, badPeers, tickPc, localVars, connVars, chainHeight,
                 queueVars, dbHeight, dbSavedPeers, now, logVars, orderVars>>

\* a connection's worker learns that its peer has a longer chain
PostSearchForBlocks ==
  /\ \E c \in p2pPeers :
       /\ workerStarted[c] > 0
       /\ chainHeight' = [chainHeight EXCEPT ![c] = MaxHeight + 1]
       /\ Deliver("p2pCtrlSearchForBlocks", c)
  /\ UNCHANGED <<coVars, badPeers, tickPc, localVars, connVars, queueVars, dbHeight,
                 dbSavedPeers, now, logVars, orderVars>>

\* SearchForBlocks messages for connection c delivered and not yet received
Pending(c) ==
  Cardinality({i \in DOMAIN p2pCtrlChannel :
                 /\ p2pCtrlChannel[i].msgType = "p2pCtrlSearchForBlocks"
                 /\ p2pCtrlChannel[i].payload = c})

\* a connection's worker reports its peer's longer chain again and again, as
\* long as the requests it caused, made and to come, are no more than one
\* beyond what the chanToPeer holds
PostSearchRepeatedly ==
  /\ Len(p2pCtrlChannel) < MaxCtrl
  /\ \E c \in p2pPeers :
       /\ workerStarted[c] > 0
       /\ Len(sentToPeer[c]) + Pending(c) <= ChanToPeerCap
       /\ chainHeight' = [chainHeight EXCEPT ![c] = MaxHeight + 1]
       /\ posted' = posted + 1
       /\ p2pCtrlChannel' = Append(p2pCtrlChannel,
                                   [id |-> posted + 1,
                                    msgType |-> "p2pCtrlSearchForBlocks",
                                    payload |-> c])
  /\ UNCHANGED <<coVars, badPeers, tickPc, localVars, connVars, queueVars, dbHeight,
                 dbSavedPeers, now, logVars, orderVars>>

\* a connection's worker receives from its chanToPeer
WorkerTake ==
  /\ \E c \in p2pPeers :
       /\ workerStarted[c] > 0
       /\ chanToPeer(c) # <<>>
       /\ takenByWorker' = [takenByWorker EXCEPT ![c] = @ + 1]
  /\ UNCHANGED <<coVars, badPeers, p2pCtrlChannel, tickPc, localVars, connVars,
                 chainHeight, sentToPeer, dbHeight, dbSavedPeers, now, logVars,
                 posted, orderVars>>

\* a connection ends and its worker removes it from the registry, which it
\* can do only while the flood does not hold the registry's lock
WorkerClose ==
  /\ coPc # "flood"
  /\ \E c \in p2pPeers :
       /\ workerStarted[c] > 0
       /\ p2pPeers' = p2pPeers \ {c}
  /\ UNCHANGED <<coVars, badPeers, p2pCtrlChannel, tickPc, localVars, connAddress,
                 workerStarted, nextConn, chainHeight, queueVars, dbHeight,
                 dbSavedPeers, now, logVars, posted, orderVars>>

\* a worker quarantines an address
BadPeerAdd ==
  /\ Cardinality({a \in Addrs : badPeers[a] >= 0}) < MaxBad
  /\ \E a \in Addrs :
       /\ badPeers[a] < 0
       /\ badPeers' = [badPeers EXCEPT ![a] = now]
  /\ UNCHANGED <<coVars, p2pCtrlChannel, tickPc, localVars, connVars, chainHeight,
                 queueVars, dbHeight, dbSavedPeers, now, logVars, posted, orderVars>>

\* ------------------------------------------------------ the specifications
Coordinator ==
  \/ RunStart \/ RecvCtrl \/ SearchSend \/ DiscoverStep \/ DiscoverDial \/ DiscoverSpawn
  \/ RecvTick \/ FloodSend \/ FloodDone \/ ReconnectCheck
  \/ ConnectStep \/ ConnectDial \/ ConnectSpawn \/ ConnectDone

Next ==
  \/ Coordinator
  \/ TickSleepDone \/ TimePasses \/ BlockAccepted
  \/ PostDiscoverPeers \/ PostSearchForBlocks
  \/ WorkerTake \/ WorkerClose \/ BadPeerAdd

\* the whole system
Spec == Init /\ [][Next]_vars

\* the peer set over time: discovery, quarantine and reconciliation, while the
\* chain stands still
NextPeers ==
  \/ RunStart \/ RecvCtrl \/ DiscoverStep \/ DiscoverDial \/ DiscoverSpawn
  \/ RecvTick \/ ReconnectCheck
  \/ ConnectStep \/ ConnectDial \/ ConnectSpawn \/ ConnectDone
  \/ TickSleepDone \/ TimePasses \/ PostDiscoverPeers \/ WorkerClose \/ BadPeerAdd

SpecPeers == Init /\ [][NextPeers]_vars

\* the specifications below run within the first ten minutes, in which no
\* saved peer is read
InitBlocks == Init /\ dbSavedPeers = {}

\* block propagation: ticks, the growing chain, the flood, and connections
\* that discovery registers and their workers close
NextFlood ==
  \/ RunStart \/ RecvCtrl \/ DiscoverStep \/ DiscoverDial \/ DiscoverSpawn
  \/ RecvTick \/ FloodSend \/ FloodDone \/ ReconnectCheck
  \/ TickSleepDone \/ BlockAccepted \/ PostDiscoverPeers
  \/ WorkerTake \/ WorkerClose

SpecFlood == InitBlocks /\ [][NextFlood]_vars

\* the tick handler over a database whose height can also go down
NextAnyHeight ==
  \/ RunStart \/ RecvCtrl \/ DiscoverStep \/ DiscoverDial \/ DiscoverSpawn
  \/ RecvTick \/ FloodSend \/ FloodDone \/ ReconnectCheck
  \/ TickSleepDone \/ BlockAccepted \/ HeightDrops \/ PostDiscoverPeers
  \/ WorkerTake

SpecAnyHeight == InitBlocks /\ [][NextAnyHeight]_vars

\* the run loop: both kinds of control message, ticks and floods
NextLoop ==
  \/ RunStart \/ RecvCtrl \/ SearchSend \/ DiscoverStep \/ DiscoverDial \/ DiscoverSpawn
  \/ RecvTick \/ FloodSend \/ FloodDone \/ ReconnectCheck
  \/ TickSleepDone \/ BlockAccepted \/ PostDiscoverPeers \/ PostSearchForBlocks
  \/ WorkerTake

SpecLoop == InitBlocks /\ [][NextLoop]_vars

\* requests piling up: connections that discovery registers, workers that
\* report again and again, take slowly, and end
NextBacklog ==
  \/ RunStart \/ RecvCtrl \/ SearchSend \/ DiscoverStep \/ DiscoverDial \/ DiscoverSpawn
  \/ RecvTick \/ ReconnectCheck \/ TickSleepDone
  \/ PostDiscoverPeers \/ PostSearchRepeatedly \/ WorkerTake \/ WorkerClose

SpecBacklog == InitBlocks /\ [][NextBacklog]_vars

\* the tick handler in full, over twenty minutes: the growing chain, the flood,
\* and the reconciliation with the saved peers
NextTick ==
  \/ RunStart \/ RecvTick \/ FloodSend \/ FloodDone \/ ReconnectCheck
  \/ ConnectStep \/ ConnectDial \/ ConnectSpawn \/ ConnectDone
  \/ TickSleepDone \/ TimePasses \/ BlockAccepted \/ WorkerTake

\* with two saved addresses
InitTick == InitProgram /\ address = <<>> /\ dbSavedPeers = Addrs

SpecTick == InitTick /\ [][NextTick]_vars

\* the saved-peer store: it starts with one canonical address and one that
\* was saved with another port
OtherPortPeer == <<"a", ":", "9">>

InitStore ==
  InitProgram /\ address = <<>> /\ dbSavedPeers = {Canon(<<"9">>), OtherPortPeer}

SpecStore == InitStore /\ [][NextPeers]_vars

\* the end-to-end scenario: the registry empty, one saved address, no quarantine
SavedPeer == Canon(<<"a">>)

InitScenario == Init /\ dbSavedPeers = {SavedPeer}

SpecScenario == InitScenario /\ [][NextTick]_vars

\* the canonicalization on its own: lines 73-80 applied to an address, and
\* applied again to what they gave
CanonOnce ==
  /\ canonicalAddress = <<>>
  /\ canonicalAddress' = Canon(address)
  /\ UNCHANGED <<coVars, badPeers, p2pCtrlChannel, tickPc, addresses, p2pcStart,
                 newHeight, flooded, msg, floodOrder, peers, peer, address, connVars,
                 chainHeight, queueVars, dbHeight, dbSavedPeers, now, logVars,
                 posted, orderVars>>

CanonAgain ==
  /\ canonicalAddress # <<>>
  /\ address # canonicalAddress
  /\ address' = canonicalAddress
  /\ canonicalAddress' = Canon(canonicalAddress)
  /\ UNCHANGED <<coVars, badPeers, p2pCtrlChannel, tickPc, addresses, p2pcStart,
                 newHeight, flooded, msg, floodOrder, peers, peer, connVars, chainHeight,
                 queueVars, dbHeight, dbSavedPeers, now, logVars, posted, orderVars>>

InitCanon == InitProgram /\ dbSavedPeers = {} /\ address \in Str(MaxLen)

NextCanon == CanonOnce \/ CanonAgain

SpecCanon == InitCanon /\ [][NextCanon]_vars

\* ================================================================= claims

\* ---- C1 (as claimed; the code returns instead): a failed resolve or dial
\* skips only its candidate, so handleDiscoverPeers returns only when no
\* candidate of the batch is left unvisited.
Unvisited == IF coPc = "discover" THEN Tail(addresses) ELSE addresses

DiscoverFailureSkipsOneCandidate ==
  [][(coPc \in {"discover", "discoverDial", "discoverSpawn"} /\ coPc' = "select")
       => Unvisited = <<>>]_vars

\* ---- C2: a dial is started, by discovery or by reconciliation, only to an
\* address that is not a member of badPeers at that moment.
QuarantinedNeverDialed ==
  [][/\ (coPc # "discoverDial" /\ coPc' = "discoverDial")
          => ~Has(badPeers, canonicalAddress')
     /\ (coPc # "connectDial" /\ coPc' = "connectDial")
          => ~Has(badPeers, peer')]_vars

\* a dial to an address whose quarantine entry has expired
ExpiredQuarantineDialed ==
  /\ coPc = "discoverDial"
  /\ badPeers[canonicalAddress] >= 0
  /\ now - badPeers[canonicalAddress] >= BadPeersMinutes

\* ---- C3: the registry never holds two connections with the same address,
\* every registered address is in canonical form, and neither a dial nor a
\* registration happens for an address that is registered.
RegistryUnique ==
  /\ \A c, d \in p2pPeers : connAddress[c] = connAddress[d] => c = d
  /\ \A c \in p2pPeers : connAddress[c] = Canon(connAddress[c])

OneConnectionPerAddress ==
  /\ []RegistryUnique
  /\ [][/\ (coPc # "discoverDial" /\ coPc' = "discoverDial")
             => ~HasAddress(canonicalAddress')
        /\ (coPc # "connectDial" /\ coPc' = "connectDial")
             => ~HasAddress(peer')
        /\ (nextConn' # nextConn)
             => ~HasAddress(connAddress'[nextConn])]_vars

\* two connections are registered and discovery is at a candidate, spelled
\* with another port, whose canonical form is registered
DuplicateCandidateMet ==
  /\ Cardinality(p2pPeers) = 2
  /\ coPc = "discover"
  /\ Head(addresses) # Canon(Head(addresses))
  /\ HasAddress(Canon(Head(addresses)))

\* ---- C4: a tick floods exactly when the height has grown, for the range
\* from lastTickBlockchainHeight to the new height; the ranges follow one
\* another without gap or overlap from the height read at start-up, so every
\* height above it up to the last one announced is in exactly one flood.
LastAnnounced == IF floods = <<>> THEN startHeight ELSE floods[Len(floods)].max

FloodRangesInv ==
  coPc # "start" =>
    /\ \A i \in DOMAIN floods :
         /\ floods[i].min < floods[i].max
         /\ floods[i].min = (IF i = 1 THEN startHeight ELSE floods[i - 1].max)
    /\ \A h \in (startHeight + 1)..LastAnnounced :
         Cardinality({i \in DOMAIN floods :
                        \E j \in DOMAIN floods[i].hashes : floods[i].hashes[j] = h}) = 1
    /\ \A i \in DOMAIN floods : \A j \in DOMAIN floods[i].hashes :
         floods[i].hashes[j] \in (startHeight + 1)..LastAnnounced
    /\ coPc # "flood" => lastTickBlockchainHeight = LastAnnounced

FloodRangesExact ==
  /\ []FloodRangesInv
  /\ [][/\ (tickPc = "send" /\ tickPc' = "sleep") =>
             IF dbHeight > lastTickBlockchainHeight
             THEN /\ Len(floods') = Len(floods) + 1
                  /\ floods'[Len(floods')].min = lastTickBlockchainHeight
                  /\ floods'[Len(floods')].max = dbHeight
             ELSE floods' = floods
        /\ floods' # floods => (tickPc = "send" /\ tickPc' = "sleep")]_vars

\* two floods have been made, both sent to a registered connection
TwoFloodsMade ==
  /\ Len(floods) = 2
  /\ floods[1].to # {}
  /\ floods[2].to # {}
  /\ coPc = "select"

\* ---- C5: when a flood's iteration is over, every connection that was in
\* the registry when it began has been sent the flood's message exactly once,
\* the message carries the hashes of the heights of the flood's range, and no
\* other connection is ever sent it.
Copies(m, q) == Cardinality({k \in DOMAIN q : q[k] = m})

FloodOver(i) == i < Len(floods) \/ coPc # "flood"

FloodReachesRegisteredOnce ==
  \A i \in DOMAIN floods :
    /\ floods[i].hashes = [j \in 1..(floods[i].max - floods[i].min) |-> floods[i].min + j]
    /\ \A c \in Conns :
         LET n == Copies([Msg |-> "p2pMsgBlockHashes", Hashes |-> floods[i].hashes],
                         sentToPeer[c])
         IN  IF c \in floods[i].to
             THEN n <= 1 /\ (FloodOver(i) => n = 1)
             ELSE n = 0

\* a flood went to connection 1, and connection 2 was registered after it
RegisteredAfterFlood ==
  /\ floods # <<>>
  /\ floods[1].to = {1}
  /\ 2 \in p2pPeers
  /\ coPc = "select"

\* ---- C6: lastTickBlockchainHeight never decreases, whatever heights the
\* database returns.
HeightNeverDecreases ==
  [][lastTickBlockchainHeight' >= lastTickBlockchainHeight]_vars

\* a tick has read a height below lastTickBlockchainHeight
TickReadLowerHeight ==
  /\ coPc = "reconnectCheck"
  /\ newHeight < lastTickBlockchainHeight

\* ---- C7: the second half of a tick starts connectDbPeers exactly when at
\* least 10 minutes have passed since lastReconnectTime, and then sets
\* lastReconnectTime to the current time; nothing else starts connectDbPeers or
\* changes lastReconnectTime, no dial result included, so lastReconnectTime
\* moves by at least 10 minutes each time.
ReconcileEveryTenMinutes ==
  [][/\ (coPc = "reconnectCheck" /\ coPc' # "reconnectCheck") =>
          IF now - lastReconnectTime >= ReconnectMinutes
          THEN coPc' = "connectDbPeers" /\ lastReconnectTime' = now
          ELSE coPc' = "select" /\ lastReconnectTime' = lastReconnectTime
     /\ (coPc' = "connectDbPeers"
           /\ coPc \notin {"connectDbPeers", "connectDial", "connectSpawn"})
          => coPc = "reconnectCheck"
     /\ coPc # "reconnectCheck" => lastReconnectTime' = lastReconnectTime
     /\ lastReconnectTime' # lastReconnectTime
          => lastReconnectTime' - lastReconnectTime >= ReconnectMinutes]_vars

\* a reconciliation run is over in which the dial of the saved peer failed,
\* and the timer was reset all the same
FailedRunResetTimer ==
  /\ coPc = "connectDbPeers"
  /\ peers = {}
  /\ lastReconnectTime = now
  /\ now >= ReconnectMinutes
  /\ dbSavedPeers # {}
  /\ nextConn = 1
  /\ \A a \in Addrs : badPeers[a] < 0

\* ---- C8: canonicalizing a canonical address gives it back, and a host
\* without colon canonicalizes to host:defaultPort with or without any port.
NoColon(t) == \A i \in DOMAIN t : t[i] # Colon
Ports == {t \in Str(2) : t # <<>> /\ NoColon(t)}

CanonIdempotentPortInsensitive ==
  canonicalAddress # <<>> =>
    /\ Canon(canonicalAddress) = canonicalAddress
    /\ NoColon(address) =>
         /\ canonicalAddress = address \o <<":">> \o Itoa(DefaultP2PPort)
         /\ \A t \in Ports : Canon(address \o <<":">> \o t) = canonicalAddress

\* an address with a port other than the default has been canonicalized
OtherPortCanonicalized ==
  /\ address = <<"a", ":", "9">>
  /\ canonicalAddress = <<"a", ":", "7">>

\* ---- C9 (as claimed): whenever the tick source is at its send, the send
\* can complete.
TickSendNeverBlocks == tickPc = "send" => TickTaken

\* ---- C9 (amended): the tick source's send completes only in a step in which
\* the run loop, at its select, receives the tick and starts handleTimeTick;
\* while the coordinator is inside a handler the tick source stays at its send.
TickSendMeetsSelect ==
  [][(tickPc = "send" /\ tickPc' # "send")
       => coPc = "select" /\ coPc' \in {"flood", "reconnectCheck"}]_vars

\* the tick source is at its send while the coordinator is inside a handler
TickWaitsForHandler ==
  /\ tickPc = "send"
  /\ coPc \in {"discover", "discoverDial", "search", "flood"}

\* ---- C10: a handler starts only at the select, with no handler in
\* progress; the control message it takes is the one delivered next after
\* those already handled, all of which have returned; a tick handler never
\* starts while a control handler is in progress, nor the reverse.
InCtrlHandler == coPc \in {"search", "discover", "discoverDial", "discoverSpawn"}
InTickHandler ==
  coPc \in {"flood", "reconnectCheck", "connectDbPeers", "connectDial", "connectSpawn"}

OneEventAtATimeInOrder ==
  /\ [](InCtrlHandler <=> curMsg # 0)
  /\ [][/\ (curMsg' # curMsg /\ curMsg' # 0)
             => coPc = "select" /\ curMsg = 0 /\ curMsg' = doneMsgs + 1
        /\ (doneMsgs' # doneMsgs)
             => curMsg = doneMsgs + 1 /\ curMsg' = 0 /\ doneMsgs' = curMsg
                  /\ coPc' = "select"
        /\ (~InTickHandler /\ InTickHandler')
             => coPc = "select" /\ curMsg = 0]_vars

\* the second control message is being handled after a tick was handled
\* between the two
SecondMessageAfterTick ==
  /\ curMsg = 2
  /\ doneMsgs = 1
  /\ floods # <<>>

\* ---- C11 (as claimed): in every state, each connection the coordinator has
\* added to the registry has had its worker started, and a worker was started
\* only for such a connection, once.
Added(c) == c < nextConn

RegisteredHasWorker ==
  \A c \in Conns : workerStarted[c] = (IF Added(c) THEN 1 ELSE 0)

\* ---- C11 (amended): p2pPeers.Add and the go statement are consecutive
\* statements of the coordinator. Every connection it has added has had its
\* worker started once, except the one it has just added, whose worker it starts
\* in its next step; a worker is started for no other connection, and only by
\* that step.
BetweenAddAndGo == coPc \in {"discoverSpawn", "connectSpawn"}

WorkerFollowsRegistration ==
  /\ [](\A c \in Conns :
         workerStarted[c] = (IF Added(c) /\ ~(BetweenAddAndGo /\ c = p2pc) THEN 1 ELSE 0))
  /\ [][/\ (nextConn' # nextConn)
             => /\ coPc \in {"discoverDial", "connectDial"}
                /\ BetweenAddAndGo'
                /\ p2pPeers' = p2pPeers \cup {nextConn}
        /\ (BetweenAddAndGo /\ coPc' # coPc)
             => workerStarted' = [workerStarted EXCEPT ![p2pc] = 1]
        /\ (workerStarted' # workerStarted) => BetweenAddAndGo]_vars

\* reconciliation has added a second connection and not yet started its
\* worker, while the first connection's worker is running
SecondAddedBeforeItsWorker ==
  /\ coPc = "connectSpawn"
  /\ p2pc = 2
  /\ 2 \in p2pPeers
  /\ workerStarted[1] = 1
  /\ workerStarted[2] = 0

\* ---- C12: when a tick's height check is over, lastTickBlockchainHeight is
\* the height the tick read; it changes nowhere else after start-up, and it is
\* never greater than the persisted height. (The persisted height only grows.)
HeightCheckOver ==
  coPc \in {"select", "flood"} /\ coPc' = "reconnectCheck"

HeightReflectsLastTick ==
  /\ [](coPc # "start" => lastTickBlockchainHeight <= dbHeight)
  /\ [][/\ HeightCheckOver => lastTickBlockchainHeight' = newHeight'
        /\ (lastTickBlockchainHeight' # lastTickBlockchainHeight)
             => coPc = "start" \/ HeightCheckOver]_vars

\* a tick's height check is over at the highest height, above the height read at
\* start-up
TickProcessedAtTop ==
  /\ coPc = "reconnectCheck"
  /\ newHeight = MaxHeight
  /\ lastTickBlockchainHeight = MaxHeight
  /\ startHeight < MaxHeight

\* ---- C13: with the registry empty and one saved address, not quarantined:
\* no reconciliation runs and no dial is made before 10 minutes have passed;
\* the tick whose reconnect check finds 10 minutes passed dials the saved
\* address; a successful dial registers it under that address, with a worker;
\* and a tick that then finds the height grown floods the hashes of exactly the
\* heights of the grown range to that connection, once.
InReconciliation == coPc \in {"connectDbPeers", "connectDial", "connectSpawn"}

LastFlood == floods[Len(floods)]

ScenarioInv ==
  /\ (InReconciliation \/ nextConn > 1) => now >= ReconnectMinutes
  /\ coPc = "connectDial" => peer = SavedPeer
  /\ \A c \in p2pPeers :
       /\ connAddress[c] = SavedPeer
       /\ workerStarted[c] = 1 \/ (BetweenAddAndGo /\ c = p2pc)

SavedPeerScenario ==
  /\ []ScenarioInv
  /\ [][/\ (coPc = "reconnectCheck" /\ coPc' # coPc /\ now >= ReconnectMinutes
              /\ lastReconnectTime = 0)
             => coPc' = "connectDbPeers" /\ peers' = {SavedPeer}
        /\ (coPc = "connectDbPeers" /\ peers' # peers /\ p2pPeers = {})
             => coPc' = "connectDial" /\ peer' = SavedPeer
        /\ (coPc = "select" /\ coPc' # coPc /\ tickPc' # tickPc
              /\ dbHeight > lastTickBlockchainHeight)
             => /\ coPc' = "flood"
                /\ Len(floods') = Len(floods) + 1
                /\ floods'[Len(floods')].to = p2pPeers
                /\ msg' = [Msg |-> "p2pMsgBlockHashes",
                           Hashes |-> [i \in 1..(dbHeight - lastTickBlockchainHeight)
                                         |-> lastTickBlockchainHeight + i]]
        /\ (coPc = "flood" /\ coPc' # coPc)
             => \A c \in Conns :
                  Copies(msg, sentToPeer[c]) = (IF c \in LastFlood.to THEN 1 ELSE 0)]_vars

\* the scenario has run to its end: the saved address was dialed and
\* registered, and a tick has just flooded the grown range to it
ScenarioRan ==
  /\ coPc = "reconnectCheck"
  /\ flooded
  /\ LastFlood.to = {1}
  /\ connAddress[1] = SavedPeer
  /\ Len(sentToPeer[1]) = 1
  /\ sentToPeer[1][1].Hashes = <<2, 3>>

\* ---- C14 (as claimed): a handler at an enqueue is never blocked for good:
\* the chanToPeer has room, or the connection's worker is there to take from
\* it, so the handler completes and the run loop returns to its select.
WorkerThere(c) == c \in p2pPeers /\ workerStarted[c] > 0

EnqueueNeverStuck ==
  /\ coPc = "search" => CanSend(p2pcStart) \/ WorkerThere(p2pcStart)
  /\ (coPc = "flood" /\ floodOrder # <<>>)
       => CanSend(Head(floodOrder)) \/ WorkerThere(Head(floodOrder))

\* ---- C15: handleSearchForBlocks(p) builds one get-block-hashes request, with
\* the persisted height as MinBlockHeight and p's chainHeight as
\* MaxBlockHeight, appends it to p's chanToPeer and returns; it changes no
\* other queue, no field of the coordinator, and neither the registry nor the
\* database.
SearchFrame ==
  UNCHANGED <<lastTickBlockchainHeight, lastReconnectTime, badPeers, p2pPeers,
              connAddress, workerStarted, nextConn, chainHeight, dbHeight,
              dbSavedPeers, takenByWorker, floods>>

SearchOnlyEnqueues ==
  [][/\ (coPc = "select" /\ coPc' = "search")
          => /\ msg' = [Msg |-> "p2pMsgGetBlockHashes",
                        MinBlockHeight |-> dbHeight,
                        MaxBlockHeight |-> chainHeight[p2pcStart']]
             /\ sentToPeer' = sentToPeer
             /\ SearchFrame
     /\ (coPc = "search" /\ coPc' # coPc)
          => /\ coPc' = "select"
             /\ sentToPeer' = [sentToPeer EXCEPT ![p2pcStart] = Append(@, msg)]
             /\ SearchFrame
     /\ (coPc = "search" /\ coPc' = coPc)
          => msg' = msg /\ p2pcStart' = p2pcStart]_vars

\* a request was enqueued whose MinBlockHeight is above the height of the last
\* tick, on a connection that is not the only one
RequestAboveLastTick ==
  /\ coPc = "select"
  /\ Cardinality(p2pPeers) = 2
  /\ \E c \in p2pPeers : \E k \in DOMAIN sentToPeer[c] :
       /\ sentToPeer[c][k].Msg = "p2pMsgGetBlockHashes"
       /\ sentToPeer[c][k].MinBlockHeight > lastTickBlockchainHeight

\* ---- C16: in a tick the height check and its flood are over before the
\* reconnect check starts, which always follows; a flood starts only at the
\* start of a tick and nothing is enqueued during reconciliation; so a
\* connection that reconciliation registers is not among those the flood of
\* the same tick went to, and never gets that flood's message.
FloodMsgOf(i) == [Msg |-> "p2pMsgBlockHashes", Hashes |-> floods[i].hashes]

FloodFinished == floodOrder = <<>> /\ msg = NoMsg

FloodThenReconnect ==
  /\ []((coPc = "reconnectCheck" \/ InReconciliation) => FloodFinished)
  /\ [](\A i \in DOMAIN floods : \A c \in Conns \ floods[i].to :
          Copies(FloodMsgOf(i), sentToPeer[c]) = 0)
  /\ [][/\ (tickPc = "send" /\ tickPc' = "sleep")
             => coPc' = (IF dbHeight > lastTickBlockchainHeight
                         THEN "flood" ELSE "reconnectCheck")
        /\ (coPc = "flood" /\ coPc' # coPc)
             => floodOrder = <<>> /\ coPc' = "reconnectCheck"
        /\ (coPc' = "flood" /\ coPc # "flood") => coPc = "select"
        /\ (InReconciliation' /\ ~InReconciliation) => coPc = "reconnectCheck"
        /\ InReconciliation => sentToPeer' = sentToPeer
        /\ (nextConn' # nextConn /\ flooded)
             => nextConn \notin LastFlood.to /\ sentToPeer[nextConn] = <<>>]_vars

\* a tick flooded connection 1 and its reconciliation then registered
\* connection 2, which got nothing
RegisteredInFloodingTick ==
  /\ coPc = "connectDbPeers"
  /\ flooded
  /\ LastFlood.to = {1}
  /\ Copies(FloodMsgOf(Len(floods)), sentToPeer[1]) = 1
  /\ 2 \in p2pPeers
  /\ workerStarted[2] = 1
  /\ sentToPeer[2] = <<>>

\* ---- C17: a tick that reads a height not above lastTickBlockchainHeight
\* makes no flood: from its start to its end nothing is appended to any
\* chanToPeer and lastTickBlockchainHeight stays; if its reconnect check also
\* finds less than 10 minutes passed, the handler returns and the registry,
\* lastReconnectTime and the saved peers stay as well.
TickWithoutGrowth ==
  [][/\ (tickPc = "send" /\ tickPc' = "sleep" /\ dbHeight <= lastTickBlockchainHeight)
          => /\ coPc' = "reconnectCheck"
             /\ ~flooded'
             /\ floods' = floods
             /\ sentToPeer' = sentToPeer
             /\ lastTickBlockchainHeight' = lastTickBlockchainHeight
     /\ (InTickHandler /\ ~flooded)
          => /\ floods' = floods
             /\ sentToPeer' = sentToPeer
             /\ lastTickBlockchainHeight' = lastTickBlockchainHeight
     /\ (coPc = "reconnectCheck" /\ coPc' # coPc
           /\ now - lastReconnectTime < ReconnectMinutes)
          => /\ coPc' = "select"
             /\ UNCHANGED <<p2pPeers, connAddress, workerStarted, nextConn,
                            lastReconnectTime, dbSavedPeers>>]_vars

\* a tick that found no growth is at its reconnect check less than 10 minutes
\* after a reconciliation, with a connection registered and a flood made before
QuietTickAfterFlood ==
  /\ coPc = "reconnectCheck"
  /\ ~flooded
  /\ p2pPeers # {}
  /\ floods # <<>>
  /\ LastFlood.to # {}
  /\ lastReconnectTime > 0
  /\ now - lastReconnectTime < ReconnectMinutes

\* ---- C18: the saved peers change only in the step of discovery that follows
\* a successful dial and registration, which adds the canonical form of the
\* candidate; a skipped or failed candidate, and reconciliation, leave them as
\* they are; reconciliation registers a saved address under the very string it
\* read.
StoreWrittenByDiscoveryOnly ==
  [][/\ (dbSavedPeers' # dbSavedPeers)
          => /\ coPc = "discoverSpawn"
             /\ p2pc \in p2pPeers
             /\ connAddress[p2pc] = Canon(address)
             /\ dbSavedPeers' = dbSavedPeers \cup {Canon(address)}
     /\ (coPc = "discoverSpawn" /\ coPc' # coPc) => Canon(address) \in dbSavedPeers'
     /\ ((coPc \in {"discover", "discoverDial"} \/ InTickHandler) /\ coPc' # coPc)
          => dbSavedPeers' = dbSavedPeers
     /\ (coPc = "connectDial" /\ nextConn' # nextConn)
          => /\ peer \in dbSavedPeers
             /\ connAddress'[nextConn] = peer]_vars

\* reconciliation registered the address saved with another port as it was
\* read, and discovery saved the canonical form of a candidate
SavedAsReadAndCanonicalSaved ==
  /\ coPc = "select"
  /\ \E c \in p2pPeers : connAddress[c] = OtherPortPeer
  /\ Canon(<<"a">>) \in dbSavedPeers

\* ---- C19: no step of the coordinator changes badPeers: a step that changes
\* it leaves the coordinator where it is, and a handler's step, a failed resolve
\* or dial included, leaves every address's membership as it was; an address
\* stops being a member only in a step in which time passes and badPeers itself
\* stays.
CoordinatorStep ==
  \/ coPc' # coPc
  \/ addresses' # addresses
  \/ peers' # peers

BadPeersOnlyRead ==
  [][/\ (badPeers' # badPeers) => ~CoordinatorStep
     /\ CoordinatorStep
          => \A a \in Addrs : Has(badPeers, a)' = Has(badPeers, a)
     /\ \A a \in Addrs :
          (Has(badPeers, a) /\ ~Has(badPeers, a)')
             => now' > now /\ badPeers' = badPeers]_vars

\* the dial of a saved address has failed at a time when another address is
\* quarantined, and the failed one is not
FailedDialNotQuarantined ==
  /\ coPc = "connectDbPeers"
  /\ peers = {}
  /\ nextConn = 1
  /\ dbSavedPeers = {Canon(<<"a">>)}
  /\ ~Has(badPeers, Canon(<<"a">>))
  /\ badPeers[Canon(<<"a">>)] < 0
  /\ Has(badPeers, Canon(<<"9">>))

\* ---- C20 (as claimed): SearchForBlocks events for the same connection and
\* the same gap that come within the window of recentlyRequestedBlocks enqueue
\* at most one get-block-hashes request for that gap on the connection's
\* chanToPeer. (The clock stands still here, so every request is within the
\* window of every other.)
IsRequest(m) == m.Msg = "p2pMsgGetBlockHashes"

OneRequestPerGap ==
  \A c \in Conns : \A i, j \in DOMAIN sentToPeer[c] :
    (IsRequest(sentToPeer[c][i]) /\ sentToPeer[c][i] = sentToPeer[c][j]) => i = j

====
